---- MODULE Spec2Model ----
(***************************************************************************)
(* HashMapComparer (src/lib.rs): a snapshot `last_map` kept behind         *)
(* Arc<Mutex<HashMap<K, V>>>, and the operations that read, replace or     *)
(* diff it against a caller's map.                                         *)
(*                                                                         *)
(* A HashMap (and a DashMap) is modelled by the sequence of its entries in *)
(* iteration order: <<k, v>> pairs with pairwise distinct keys.  Its       *)
(* contents are the set of those pairs.  A map returned to the caller is   *)
(* modelled by its contents (callers compare results with ==, which is by  *)
(* contents).                                                              *)
(***************************************************************************)
EXTENDS Integers, Sequences, FiniteSets, TLC

\* ------------------------------------------------------------------ bounds
NumKeys == 2

Keys == 1..NumKeys
\* V is only ever compared for equality and cloned: two values tell an
\* unchanged entry from a changed one
Vals == {"one", "uno"}
Entries == Keys \X Vals

\* ------------------------------------------------------- HashMap<K, V> values
KeysOf(m) == {m[i][1] : i \in DOMAIN m}

DistinctKeys(m) == \A i, j \in DOMAIN m : m[i][1] = m[j][1] => i = j

\* every HashMap<K, V> over the bounded key and value types, in every
\* iteration order
Maps == UNION {{m \in [1..n -> Entries] : DistinctKeys(m)} : n \in 0..NumKeys}

\* the maps the callers of the concurrent specification pass
ConcMaps == {<< >>, <<<<1, "one">>>>, <<<<1, "uno">>>>, <<<<2, "one">>>>}

Content(m) == {m[i] : i \in DOMAIN m}

\* the iteration orders a HashMap holding the entries c can have
Orders(c) == {m \in Maps : Content(m) = c}

is_empty(m) == Len(m) = 0

contains_key(m, key) == \E i \in DOMAIN m : m[i][1] = key

\* HashMap::get(key) on a key the map holds
get(m, key) == m[CHOOSE i \in DOMAIN m : m[i][1] = key][2]

\* HashMap::insert on the contents of a map: replaces the key's old entry
insert(c, key, value) == {e \in c : e[1] # key} \cup {<<key, value>>}

\* Iterator::eq: the two iterations agree element by element, in order
RECURSIVE iter_eq(_, _, _)
iter_eq(a, b, i) ==
    IF i > Len(a) \/ i > Len(b) THEN Len(a) = Len(b)
    ELSE IF a[i] # b[i] THEN FALSE
    ELSE iter_eq(a, b, i + 1)

\* is_same: self.last_map.lock().unwrap().iter().eq(comparable)
is_same(last, comparable) == iter_eq(last, comparable, 1)

\* is_same_dashmap: equal lengths, and every snapshot entry is in the DashMap
\* with an equal value
is_same_dashmap(last, comparable) ==
    IF Len(last) # Len(comparable) THEN FALSE
    ELSE \A i \in DOMAIN last :
            /\ contains_key(comparable, last[i][1])
            /\ get(comparable, last[i][1]) = last[i][2]

\* mutant of diff_loop: reports changed values only, not new keys
RECURSIVE diff_loop_changed_only(_, _, _, _)
diff_loop_changed_only(last, new_map, i, changed_values) ==
    IF i > Len(new_map) THEN changed_values
    ELSE LET key == new_map[i][1]
             value == new_map[i][2]
         IN  diff_loop_changed_only(last, new_map, i + 1,
                 IF contains_key(last, key) /\ value # get(last, key)
                 THEN insert(changed_values, key, value)
                 ELSE changed_values)

\* mutant of diff_loop: keys the candidate lacks are reported as well
RECURSIVE diff_loop_with_removed(_, _, _, _)
diff_loop_with_removed(last, new_map, i, changed_values) ==
    IF i > Len(new_map)
    THEN changed_values \cup {e \in Content(last) : ~contains_key(new_map, e[1])}
    ELSE LET key == new_map[i][1]
             value == new_map[i][2]
         IN  diff_loop_with_removed(last, new_map, i + 1,
                 IF ~contains_key(last, key) \/ value # get(last, key)
                 THEN insert(changed_values, key, value)
                 ELSE changed_values)

\* the diff loop of compare / update_and_compare (and the dashmap variants):
\* one pass over new_map's entries from position i, inserting into
\* changed_values
RECURSIVE diff_loop(_, _, _, _)
diff_loop(last, new_map, i, changed_values) ==
    IF i > Len(new_map) THEN changed_values
    ELSE LET key == new_map[i][1]
             value == new_map[i][2]
         IN  diff_loop(last, new_map, i + 1,
                 IF ~contains_key(last, key) \/ value # get(last, key)
                 THEN insert(changed_values, key, value)
                 ELSE changed_values)

\* the loop `for entry in new_map.iter() { m.insert(key, value) }`
RECURSIVE insert_all(_, _, _)
insert_all(c, new_map, i) ==
    IF i > Len(new_map) THEN c
    ELSE insert_all(insert(c, new_map[i][1], new_map[i][2]), new_map, i + 1)

\* mutant of unwrap_evaluated: the lookup is unwrapped for every key
unwrap_evaluated_always(last, key) == TRUE

\* `!last_map.contains_key(key) || value != last_map.get(key).unwrap()`:
\* || evaluates its right operand, the unwrap, only when the left is false
unwrap_evaluated(last, key) == ~(~contains_key(last, key))

\* the diff loop unwraps a None: get(key) on a key the snapshot lacks
unwrap_fails(last, new_map) ==
    /\ ~is_empty(last)
    /\ \E i \in DOMAIN new_map :
          /\ unwrap_evaluated(last, new_map[i][1])
          /\ ~contains_key(last, new_map[i][1])

\* what update_and_compare returns: changed_values on the non-empty branch,
\* new_map.clone() when the snapshot is empty
update_and_compare_result(last, new_map) ==
    IF ~is_empty(last) THEN diff_loop(last, new_map, 1, {})
    ELSE Content(new_map)

\* mutant of compare_result: the whole candidate is returned, changed or not
compare_result_full(last, new_map) == Content(new_map)

\* what compare returns: changed_values on the non-empty branch,
\* new_map.clone() when the snapshot is empty
compare_result(last, new_map) ==
    IF ~is_empty(last) THEN diff_loop(last, new_map, 1, {})
    ELSE Content(new_map)

\* what compare_dashmap returns: on the empty branch every DashMap entry is
\* inserted into changed_values
compare_dashmap_result(last, new_map) ==
    IF ~is_empty(last) THEN diff_loop(last, new_map, 1, {})
    ELSE insert_all({}, new_map, 1)

\* ------------------------------------------------------------------- state
Threads == {"t1", "t2"}
Main == "t1"
NoThread == "none"

PlainOps == {"clone_last", "is_same", "update", "is_same_update",
             "update_and_compare", "compare"}
DashmapOps == {"is_same_dashmap", "update_dashmap", "is_same_update_dashmap",
               "update_and_compare_dashmap", "compare_dashmap"}
Ops == PlainOps \cup DashmapOps

\* what an operation hands back: a bool (is_same...) or a map's contents
NoRet == [bool |-> FALSE, map |-> {}]
RetBool(b) == [bool |-> b, map |-> {}]
RetMap(c) == [bool |-> FALSE, map |-> c]

VARIABLES
    last_map,   \* the HashMap inside Arc<Mutex<..>>
    holder,     \* the thread holding the MutexGuard, or NoThread
    poisoned,   \* the Mutex's poison flag
    pc,         \* each caller's position
    op,         \* the operation each caller is in
    arg,        \* its argument (comparable / new_map)
    ret,        \* its result (for is_same_update: the local `is_same`)
    pre,        \* the snapshot its guard read
    written,    \* history: the argument of the most recent completed write
    prev_uac,   \* history: <<M>> when the call that returned last was
                \* update_and_compare(M), else << >>
    writer,     \* history: the thread whose handle made the most recent write
    dropped     \* history: the entries a write removed from the snapshot
                \* whose key no write has brought back since

vars == <<last_map, holder, poisoned, pc, op, arg, ret, pre, written, prev_uac,
          writer, dropped>>

TypeOK ==
    /\ last_map \in Maps
    /\ holder \in Threads \cup {NoThread}
    /\ poisoned \in BOOLEAN
    /\ pc \in [Threads -> {"idle", "lock", "held", "diffed", "lock2", "held2",
                           "done", "failed", "aborted"}]
    /\ op \in [Threads -> Ops \cup {"none"}]
    /\ arg \in [Threads -> Maps]
    /\ pre \in [Threads -> Maps]
    /\ written \in Maps
    /\ writer \in Threads \cup {NoThread}
    /\ dropped \subseteq Entries

\* HashMapComparer::new(): an empty map, an unlocked and unpoisoned Mutex
Init ==
    /\ last_map = << >>
    /\ holder = NoThread
    /\ poisoned = FALSE
    /\ pc = [t \in Threads |-> "idle"]
    /\ op = [t \in Threads |-> "none"]
    /\ arg = [t \in Threads |-> << >>]
    /\ ret = [t \in Threads |-> NoRet]
    /\ pre = [t \in Threads |-> << >>]
    /\ written = << >>
    /\ prev_uac = << >>
    /\ writer = NoThread
    /\ dropped = {}

\* ------------------------------------------------------------------ actions
\* a caller invokes operation o with map m (clone_last takes none)
Call(t, o, m) ==
    /\ pc[t] = "idle"
    /\ o = "clone_last" => m = << >>
    /\ pc' = [pc EXCEPT ![t] = "lock"]
    /\ op' = [op EXCEPT ![t] = o]
    /\ arg' = [arg EXCEPT ![t] = m]
    /\ UNCHANGED <<last_map, holder, poisoned, ret, pre, written, writer, dropped, prev_uac>>

\* a panic unwinds the caller's frame: its locals are dropped
Unwind(t) ==
    /\ op' = [op EXCEPT ![t] = "none"]
    /\ arg' = [arg EXCEPT ![t] = << >>]
    /\ ret' = [ret EXCEPT ![t] = NoRet]
    /\ pre' = [pre EXCEPT ![t] = << >>]

\* history of a write of arg[t] over the snapshot: the entries whose key the
\* new snapshot lacks are dropped, a key it holds is known again
RecordWrite(t) ==
    /\ written' = arg[t]
    /\ writer' = t
    /\ dropped' = {e \in dropped \cup Content(last_map) : ~contains_key(arg[t], e[1])}

\* the guard is dropped and the operation returns r
Finish(t, r) ==
    /\ holder' = NoThread
    /\ pc' = [pc EXCEPT ![t] = "done"]
    /\ ret' = [ret EXCEPT ![t] = r]

\* mutant of Lock: the guard is handed out while another caller holds it
LockNoExclusion(t) ==
    /\ pc[t] \in {"lock", "lock2"}
    /\ ~poisoned
    /\ holder' = t
    /\ pc' = [pc EXCEPT ![t] = IF pc[t] = "lock" THEN "held" ELSE "held2"]
    /\ UNCHANGED <<last_map, poisoned, op, arg, ret, pre, written, writer, dropped, prev_uac>>

\* self.last_map.lock().unwrap() on a healthy Mutex: blocks until it is free
Lock(t) ==
    /\ pc[t] \in {"lock", "lock2"}
    /\ holder = NoThread
    /\ ~poisoned
    /\ holder' = t
    /\ pc' = [pc EXCEPT ![t] = IF pc[t] = "lock" THEN "held" ELSE "held2"]
    /\ UNCHANGED <<last_map, poisoned, op, arg, ret, pre, written, writer, dropped, prev_uac>>

\* self.last_map.lock().unwrap() on a poisoned Mutex: lock() gives
\* Err(PoisonError) and unwrap() panics in the calling thread
LockPoisoned(t) ==
    /\ pc[t] \in {"lock", "lock2"}
    /\ holder = NoThread
    /\ poisoned
    /\ pc' = [pc EXCEPT ![t] = "aborted"]
    /\ Unwind(t)
    /\ UNCHANGED <<last_map, holder, poisoned, written, writer, dropped, prev_uac>>

\* unwrap() / expect("None Value") on None panics under the guard: the thread
\* unwinds and the dropped guard poisons the Mutex
UnwrapPanic(t) ==
    /\ pc' = [pc EXCEPT ![t] = "failed"]
    /\ holder' = NoThread
    /\ poisoned' = TRUE
    /\ Unwind(t)
    /\ UNCHANGED <<last_map, written, writer, dropped, prev_uac>>

clone_last(t) ==
    /\ pc[t] = "held" /\ op[t] = "clone_last"
    /\ pre' = [pre EXCEPT ![t] = last_map]
    /\ Finish(t, RetMap(Content(last_map)))
    /\ UNCHANGED <<last_map, poisoned, op, arg, written, writer, dropped, prev_uac>>

IsSame(t) ==
    /\ pc[t] = "held" /\ op[t] = "is_same"
    /\ pre' = [pre EXCEPT ![t] = last_map]
    /\ Finish(t, RetBool(is_same(last_map, arg[t])))
    /\ UNCHANGED <<last_map, poisoned, op, arg, written, writer, dropped, prev_uac>>

\* mutant of Update: new_map's entries are added to the snapshot, the keys
\* new_map lacks stay
UpdateMerge(t) ==
    /\ pc[t] = "held" /\ op[t] = "update"
    /\ last_map' \in Orders(insert_all(Content(last_map), arg[t], 1))
    /\ RecordWrite(t)
    /\ Finish(t, NoRet)
    /\ UNCHANGED <<poisoned, op, arg, pre, prev_uac>>

\* mutant of Update: the write goes to a private copy of the map, not to the
\* one the handles share
UpdateLocalCopy(t) ==
    /\ pc[t] = "held" /\ op[t] = "update"
    /\ RecordWrite(t)
    /\ Finish(t, NoRet)
    /\ UNCHANGED <<last_map, poisoned, op, arg, pre, prev_uac>>

\* last_map.clone_from(new_map): the clone keeps new_map's table layout
Update(t) ==
    /\ pc[t] = "held" /\ op[t] = "update"
    /\ last_map' = arg[t]
    /\ RecordWrite(t)
    /\ Finish(t, NoRet)
    /\ UNCHANGED <<poisoned, op, arg, pre, prev_uac>>

\* mutant of IsSameUpdateCheck: the guard taken for the check is still held
\* when update goes to acquire it
IsSameUpdateCheckKeepGuard(t) ==
    /\ pc[t] = "held" /\ op[t] = "is_same_update"
    /\ pre' = [pre EXCEPT ![t] = last_map]
    /\ ret' = [ret EXCEPT ![t] = RetBool(is_same(last_map, arg[t]))]
    /\ pc' = [pc EXCEPT ![t] = "lock2"]
    /\ UNCHANGED <<last_map, holder, poisoned, op, arg, written, writer, dropped, prev_uac>>

\* mutant of IsSameUpdateCheck: the update runs before the comparison
IsSameUpdateCheckAfterUpdate(t) ==
    /\ pc[t] = "held" /\ op[t] = "is_same_update"
    /\ pre' = [pre EXCEPT ![t] = last_map]
    /\ last_map' = arg[t]
    /\ ret' = [ret EXCEPT ![t] = RetBool(is_same(arg[t], arg[t]))]
    /\ holder' = NoThread
    /\ pc' = [pc EXCEPT ![t] = "lock2"]
    /\ UNCHANGED <<poisoned, op, arg, written, writer, dropped, prev_uac>>

\* is_same_update, first statement: let is_same = self.is_same(new_map);
\* the guard of is_same is dropped when is_same returns
IsSameUpdateCheck(t) ==
    /\ pc[t] = "held" /\ op[t] = "is_same_update"
    /\ pre' = [pre EXCEPT ![t] = last_map]
    /\ ret' = [ret EXCEPT ![t] = RetBool(is_same(last_map, arg[t]))]
    /\ holder' = NoThread
    /\ pc' = [pc EXCEPT ![t] = "lock2"]
    /\ UNCHANGED <<last_map, poisoned, op, arg, written, writer, dropped, prev_uac>>

\* is_same_update, second statement: self.update(new_map); then is_same
IsSameUpdateUpdate(t) ==
    /\ pc[t] = "held2" /\ op[t] = "is_same_update"
    /\ last_map' = arg[t]
    /\ RecordWrite(t)
    /\ Finish(t, ret[t])
    /\ UNCHANGED <<poisoned, op, arg, pre, prev_uac>>

\* update_and_compare up to the diff: the guard is taken, changed_values built
UpdateAndCompareDiff(t) ==
    /\ pc[t] = "held" /\ op[t] = "update_and_compare"
    /\ IF unwrap_fails(last_map, arg[t])
       THEN UnwrapPanic(t)
       ELSE /\ pre' = [pre EXCEPT ![t] = last_map]
            /\ ret' = [ret EXCEPT ![t] =
                         RetMap(update_and_compare_result(last_map, arg[t]))]
            /\ pc' = [pc EXCEPT ![t] = "diffed"]
            /\ UNCHANGED <<last_map, holder, poisoned, op, arg, written, writer, dropped, prev_uac>>

\* mutant of UpdateAndCompareReplace: new_map's entries are inserted over the
\* old snapshot instead of replacing it
UpdateAndCompareMerge(t) ==
    /\ pc[t] = "diffed" /\ op[t] = "update_and_compare"
    /\ last_map' \in Orders(insert_all(Content(last_map), arg[t], 1))
    /\ RecordWrite(t)
    /\ Finish(t, ret[t])
    /\ UNCHANGED <<poisoned, op, arg, pre, prev_uac>>

\* mutant of UpdateAndCompareReplace: the snapshot is not advanced
UpdateAndCompareNoStore(t) ==
    /\ pc[t] = "diffed" /\ op[t] = "update_and_compare"
    /\ Finish(t, ret[t])
    /\ UNCHANGED <<last_map, written, writer, dropped, poisoned, op, arg, pre, prev_uac>>

\* update_and_compare from last_map.clone_from(new_map) to the return
UpdateAndCompareReplace(t) ==
    /\ pc[t] = "diffed" /\ op[t] = "update_and_compare"
    /\ last_map' = arg[t]
    /\ RecordWrite(t)
    /\ Finish(t, ret[t])
    /\ UNCHANGED <<poisoned, op, arg, pre, prev_uac>>

\* mutant of Compare: the diff also advances the snapshot
CompareAndStore(t) ==
    /\ pc[t] = "held" /\ op[t] = "compare"
    /\ pre' = [pre EXCEPT ![t] = last_map]
    /\ last_map' = arg[t]
    /\ Finish(t, RetMap(compare_result(last_map, arg[t])))
    /\ UNCHANGED <<poisoned, op, arg, written, writer, dropped, prev_uac>>

Compare(t) ==
    /\ pc[t] = "held" /\ op[t] = "compare"
    /\ IF unwrap_fails(last_map, arg[t])
       THEN UnwrapPanic(t)
       ELSE /\ pre' = [pre EXCEPT ![t] = last_map]
            /\ Finish(t, RetMap(compare_result(last_map, arg[t])))
            /\ UNCHANGED <<last_map, poisoned, op, arg, written, writer, dropped, prev_uac>>

\* --------------------------------------------------- the dashmap operations
\* the DashMap argument is not modified while the call runs

IsSameDashmap(t) ==
    /\ pc[t] = "held" /\ op[t] = "is_same_dashmap"
    /\ pre' = [pre EXCEPT ![t] = last_map]
    /\ Finish(t, RetBool(is_same_dashmap(last_map, arg[t])))
    /\ UNCHANGED <<last_map, poisoned, op, arg, written, writer, dropped, prev_uac>>

\* mutant of UpdateDashmap: last_map.clear() is missing
UpdateDashmapNoClear(t) ==
    /\ pc[t] = "held" /\ op[t] = "update_dashmap"
    /\ last_map' \in Orders(insert_all(Content(last_map), arg[t], 1))
    /\ RecordWrite(t)
    /\ Finish(t, NoRet)
    /\ UNCHANGED <<poisoned, op, arg, pre, prev_uac>>

\* last_map.clear(), then one insert per DashMap entry; the order in which the
\* refilled HashMap iterates is the table's own
UpdateDashmap(t) ==
    /\ pc[t] = "held" /\ op[t] = "update_dashmap"
    /\ last_map' \in Orders(insert_all({}, arg[t], 1))
    /\ RecordWrite(t)
    /\ Finish(t, NoRet)
    /\ UNCHANGED <<poisoned, op, arg, pre, prev_uac>>

\* is_same_update_dashmap, first statement: self.is_same_dashmap(new_map)
IsSameUpdateDashmapCheck(t) ==
    /\ pc[t] = "held" /\ op[t] = "is_same_update_dashmap"
    /\ pre' = [pre EXCEPT ![t] = last_map]
    /\ ret' = [ret EXCEPT ![t] = RetBool(is_same_dashmap(last_map, arg[t]))]
    /\ holder' = NoThread
    /\ pc' = [pc EXCEPT ![t] = "lock2"]
    /\ UNCHANGED <<last_map, poisoned, op, arg, written, writer, dropped, prev_uac>>

\* is_same_update_dashmap, second statement: self.update_dashmap(new_map)
IsSameUpdateDashmapUpdate(t) ==
    /\ pc[t] = "held2" /\ op[t] = "is_same_update_dashmap"
    /\ last_map' \in Orders(insert_all({}, arg[t], 1))
    /\ RecordWrite(t)
    /\ Finish(t, ret[t])
    /\ UNCHANGED <<poisoned, op, arg, pre, prev_uac>>

\* update_and_compare_dashmap up to the diff (the empty branch builds none)
UpdateAndCompareDashmapDiff(t) ==
    /\ pc[t] = "held" /\ op[t] = "update_and_compare_dashmap"
    /\ IF unwrap_fails(last_map, arg[t])
       THEN UnwrapPanic(t)
       ELSE /\ pre' = [pre EXCEPT ![t] = last_map]
            /\ ret' = [ret EXCEPT ![t] =
                         IF ~is_empty(last_map)
                         THEN RetMap(diff_loop(last_map, arg[t], 1, {}))
                         ELSE NoRet]
            /\ pc' = [pc EXCEPT ![t] = "diffed"]
            /\ UNCHANGED <<last_map, holder, poisoned, op, arg, written, writer, dropped, prev_uac>>

\* update_and_compare_dashmap from the refill to the return: clear and insert
\* on the non-empty branch; insert alone and Ok(last_map.clone()) on the other
UpdateAndCompareDashmapReplace(t) ==
    /\ pc[t] = "diffed" /\ op[t] = "update_and_compare_dashmap"
    /\ IF ~is_empty(pre[t])
       THEN /\ last_map' \in Orders(insert_all({}, arg[t], 1))
            /\ Finish(t, ret[t])
       ELSE /\ last_map' \in Orders(insert_all(Content(last_map), arg[t], 1))
            /\ Finish(t, RetMap(Content(last_map')))
    /\ RecordWrite(t)
    /\ UNCHANGED <<poisoned, op, arg, pre, prev_uac>>

CompareDashmap(t) ==
    /\ pc[t] = "held" /\ op[t] = "compare_dashmap"
    /\ IF unwrap_fails(last_map, arg[t])
       THEN UnwrapPanic(t)
       ELSE /\ pre' = [pre EXCEPT ![t] = last_map]
            /\ Finish(t, RetMap(compare_dashmap_result(last_map, arg[t])))
            /\ UNCHANGED <<last_map, poisoned, op, arg, written, writer, dropped, prev_uac>>

\* ------------------------------------------------------ return and failure
\* the caller takes the result and is free to call again
Return(t) ==
    /\ pc[t] = "done"
    /\ prev_uac' = IF op[t] = "update_and_compare" THEN <<arg[t]>> ELSE << >>
    /\ pc' = [pc EXCEPT ![t] = "idle"]
    /\ op' = [op EXCEPT ![t] = "none"]
    /\ arg' = [arg EXCEPT ![t] = << >>]
    /\ ret' = [ret EXCEPT ![t] = NoRet]
    /\ pre' = [pre EXCEPT ![t] = << >>]
    /\ UNCHANGED <<last_map, holder, poisoned, written, writer, dropped>>

\* a write is under way at t's position
Writing(t) ==
    \/ pc[t] = "held" /\ op[t] \in {"update", "update_dashmap"}
    \/ pc[t] \in {"held2", "diffed"}

\* what a write that panics part-way can leave in last_map
Torn(t) == {last_map} \cup {SubSeq(arg[t], 1, n) : n \in 0..Len(arg[t])}

\* K's or V's eq, hash or clone panics while t holds the guard: the thread
\* unwinds, the guard is dropped during the unwind and poisons the Mutex
Fail(t) ==
    /\ pc[t] \in {"held", "held2", "diffed"}
    /\ pc' = [pc EXCEPT ![t] = "failed"]
    /\ holder' = NoThread
    /\ poisoned' = TRUE
    /\ last_map' \in (IF Writing(t) THEN Torn(t) ELSE {last_map})
    /\ Unwind(t)
    /\ UNCHANGED <<written, writer, dropped, prev_uac>>

\* ----------------------------------------------------------- specifications
Step(t) ==
    \/ Lock(t)
    \/ clone_last(t)
    \/ IsSame(t)
    \/ Update(t)
    \/ IsSameUpdateCheck(t)
    \/ IsSameUpdateUpdate(t)
    \/ UpdateAndCompareDiff(t)
    \/ UpdateAndCompareReplace(t)
    \/ Compare(t)
    \/ IsSameDashmap(t)
    \/ UpdateDashmap(t)
    \/ IsSameUpdateDashmapCheck(t)
    \/ IsSameUpdateDashmapUpdate(t)
    \/ UpdateAndCompareDashmapDiff(t)
    \/ UpdateAndCompareDashmapReplace(t)
    \/ CompareDashmap(t)
    \/ Return(t)

\* one caller, every map of the bounded types
Next ==
    \/ \E o \in Ops, m \in Maps : Call(Main, o, m)
    \/ Step(Main)

Spec == Init /\ [][Next]_vars

\* callers on several threads sharing the comparer, any of which may fail in
\* K's or V's code while holding the guard
NextConc ==
    \E t \in Threads :
        \/ \E o \in Ops, m \in ConcMaps : Call(t, o, m)
        \/ Step(t)
        \/ Fail(t)
        \/ LockPoisoned(t)

SpecConc == Init /\ [][NextConc]_vars

\* the maps the callers of SpecLive pass
LiveMaps == {<< >>, <<<<1, "one">>>>}

\* callers on several threads, none of which fails while holding the guard
NextLive ==
    \E t \in Threads :
        \/ \E o \in Ops, m \in LiveMaps : Call(t, o, m)
        \/ Step(t)

\* a running thread keeps running, and the Mutex is fair: a thread that
\* finds the guard free again and again gets it
SpecLive ==
    /\ Init
    /\ [][NextLive]_vars
    /\ \A t \in Threads : WF_vars(Step(t)) /\ SF_vars(Lock(t))

\* another thread inserts, changes or removes entries of the DashMap that
\* t's operation in progress was given
DashMapModify(t, m) ==
    /\ op[t] \in DashmapOps
    /\ pc[t] \in {"lock", "held", "diffed", "lock2", "held2"}
    /\ m # arg[t]
    /\ arg' = [arg EXCEPT ![t] = m]
    /\ UNCHANGED <<last_map, holder, poisoned, pc, op, ret, pre, written, writer, dropped, prev_uac>>

\* one caller, whose DashMap arguments other threads modify during the call
NextDash ==
    \/ \E o \in Ops, m \in Maps : Call(Main, o, m)
    \/ Step(Main)
    \/ \E m \in Maps : DashMapModify(Main, m)

SpecDash == Init /\ [][NextDash]_vars

\* =================================================================== claims
ReadOps == {"clone_last", "is_same", "compare", "is_same_dashmap", "compare_dashmap"}

\* t's call of operation o has finished and its result is not yet taken
Done(t, o) == pc[t] = "done" /\ op[t] = o

\* the diff as the specification words it: the entries of M whose key is
\* absent from S or has a different value in S
ExpectedDiff(S, M) ==
    {e \in Content(M) :
        \/ \A f \in Content(S) : f[1] # e[1]
        \/ \E f \in Content(S) : f[1] = e[1] /\ f[2] # e[2]}

\* C1: compare(M) on snapshot S returns exactly the entries of M whose key is
\* absent from S or has a different value in S; with S empty that is all of M.
C1_CompareReturnsDiff ==
    \A t \in Threads :
        Done(t, "compare") =>
            /\ ret[t].map = ExpectedDiff(pre[t], arg[t])
            /\ is_empty(pre[t]) => ret[t].map = Content(arg[t])

\* a compare against a non-empty snapshot that reports some entries of M and
\* leaves others out
C1_Witness ==
    /\ Done(Main, "compare")
    /\ ~is_empty(pre[Main])
    /\ ret[Main].map # {}
    /\ ret[Main].map # Content(arg[Main])

\* C2: update_and_compare(M) returns what compare(M) returns on the pre-call
\* snapshot and leaves the snapshot equal to M; after a preceding
\* update_and_compare(M0) it returns the diff of M against M0.
C2_UpdateAndCompareDiffsAndAdvances ==
    \A t \in Threads :
        Done(t, "update_and_compare") =>
            /\ ret[t].map = compare_result(pre[t], arg[t])
            /\ ret[t].map = ExpectedDiff(pre[t], arg[t])
            /\ last_map = arg[t]
            /\ prev_uac # << >> => ret[t].map = ExpectedDiff(prev_uac[1], arg[t])

\* a second update_and_compare in a row whose diff is part of M, from a
\* snapshot holding a key M lacks
C2_Witness ==
    /\ Done(Main, "update_and_compare")
    /\ prev_uac # << >>
    /\ ret[Main].map # {}
    /\ ret[Main].map # Content(arg[Main])
    /\ KeysOf(pre[Main]) # KeysOf(arg[Main])

\* C3: between the moment update_and_compare (or its dashmap variant) reads
\* the snapshot for its diff and the moment it replaces it, the caller holds
\* the guard, no other caller is inside an operation, and the snapshot is
\* still the one the diff was computed from.
C3_UpdateAndCompareAtomic ==
    \A t \in Threads :
        pc[t] = "diffed" =>
            /\ holder = t
            /\ last_map = pre[t]
            /\ \A u \in Threads \ {t} : pc[u] \notin {"held", "held2", "diffed"}

\* a caller is between its diff and its replacement while another caller,
\* wanting to write a different map, waits for the guard
C3_Witness ==
    \E t, u \in Threads :
        /\ pc[t] = "diffed" /\ op[t] = "update_and_compare"
        /\ ~is_empty(pre[t])
        /\ pc[u] = "lock" /\ op[u] = "update"
        /\ arg[u] # arg[t] /\ arg[u] # pre[t]

\* C4: operations fully serialize; for is_same_update and
\* is_same_update_dashmap nothing takes effect on the snapshot between the
\* equality check and the replacement.
C4_IsSameUpdateSerializes ==
    \A t \in Threads :
        pc[t] \in {"lock2", "held2"} => last_map = pre[t]

\* C5: the snapshot holds exactly the entries of the map passed to the most
\* recent write operation (none: it is empty), and clone_last returns them.
C5_SnapshotIsLastWrite ==
    /\ Content(last_map) = Content(written)
    /\ \A t \in Threads : Done(t, "clone_last") => ret[t].map = Content(written)

\* clone_last returns a non-empty snapshot
C5_Witness ==
    /\ Done(Main, "clone_last")
    /\ ~is_empty(written)
    /\ ret[Main].map = Content(written)

\* C6: no step of a read-only operation changes the snapshot, so the diff that
\* compare returns is the diff against the snapshot it leaves behind.
C6_ReadOpsLeaveSnapshot ==
    [][/\ \A t \in Threads : op[t] \in ReadOps => last_map' = last_map
       /\ \A t \in Threads :
            (pc'[t] = "done" /\ op'[t] = "compare") =>
                ret'[t].map = ExpectedDiff(last_map', arg'[t])]_vars

\* a compare has returned a diff against a non-empty snapshot that differs
\* from its argument
C6_Witness ==
    /\ Done(Main, "compare")
    /\ ~is_empty(last_map)
    /\ last_map = pre[Main]
    /\ Content(arg[Main]) # Content(last_map)

\* C7: is_same(M) is true exactly when the snapshot and M hold the same keys
\* with equal values, in whatever order M enumerates its entries.
C7_IsSameIsSetEquality ==
    \A t \in Threads :
        Done(t, "is_same") =>
            (ret[t].bool <=> Content(pre[t]) = Content(arg[t]))

\* C8: is_same_update(M) always leaves the snapshot equal to M and returns
\* what is_same(M) gives on the snapshot before the call; is_same(M) is then
\* true.
C8_IsSameUpdateAlwaysUpdates ==
    \A t \in Threads :
        Done(t, "is_same_update") =>
            /\ last_map = arg[t]
            /\ ret[t].bool = is_same(pre[t], arg[t])
            /\ is_same(last_map, arg[t])

\* is_same_update returned false from a non-empty snapshot and has replaced it
C8_Witness ==
    /\ Done(Main, "is_same_update")
    /\ ~ret[Main].bool
    /\ ~is_empty(pre[Main])
    /\ pre[Main] # arg[Main]

\* C9: after a caller failed while holding the guard, an operation gets the
\* poisoned-lock condition as an error result; its thread is not aborted.
C9_PoisonIsRecoverableError ==
    \A t \in Threads : pc[t] # "aborted"

\* C10: update_and_compare(M) directly after update_and_compare(M) returns
\* the empty mapping.
C10_SecondUpdateAndCompareEmpty ==
    \A t \in Threads :
        ( /\ Done(t, "update_and_compare")
          /\ prev_uac # << >>
          /\ Content(prev_uac[1]) = Content(arg[t]) ) => ret[t].map = {}

\* the second of two update_and_compare calls with the same non-empty map
C10_Witness ==
    /\ Done(Main, "update_and_compare")
    /\ prev_uac = <<arg[Main]>>
    /\ ~is_empty(arg[Main])

DiffOps == {"compare", "update_and_compare", "compare_dashmap",
            "update_and_compare_dashmap"}

\* C11 as claimed: whenever the snapshot is empty or differs from M,
\* update_and_compare(M) returns a non-empty diff.
C11_DiffNonEmptyWheneverDifferent ==
    \A t \in Threads :
        ( /\ Done(t, "update_and_compare")
          /\ (is_empty(pre[t]) \/ Content(pre[t]) # Content(arg[t])) )
        => ret[t].map # {}

\* C11 amended: whenever M holds an entry that the snapshot lacks or holds
\* with another value (so M is not empty), update_and_compare(M) returns a
\* non-empty diff.
C11_DiffNonEmptyWhenEntryNewOrChanged ==
    \A t \in Threads :
        ( /\ Done(t, "update_and_compare")
          /\ ~(Content(arg[t]) \subseteq Content(pre[t])) )
        => ret[t].map # {}

\* update_and_compare against a non-empty snapshot reported a new key and
\* left an unchanged entry out
C11_Witness ==
    /\ Done(Main, "update_and_compare")
    /\ ~is_empty(pre[Main])
    /\ ~(KeysOf(arg[Main]) \subseteq KeysOf(pre[Main]))
    /\ ret[Main].map # {}
    /\ ret[Main].map # Content(arg[Main])

\* C12: on a DashMap that holds the entries of a HashMap M and is not modified
\* during the call, each dashmap operation returns what the plain operation
\* returns for M and leaves the same snapshot entries.
C12_DashmapVariantsAgree ==
    \A t \in Threads : \A M \in Orders(Content(arg[t])) :
        /\ Done(t, "is_same_dashmap") => ret[t].bool = is_same(pre[t], M)
        /\ Done(t, "is_same_update_dashmap") =>
              /\ ret[t].bool = is_same(pre[t], M)
              /\ Content(last_map) = Content(M)
        /\ Done(t, "update_dashmap") => Content(last_map) = Content(M)
        /\ Done(t, "compare_dashmap") => ret[t].map = compare_result(pre[t], M)
        /\ Done(t, "update_and_compare_dashmap") =>
              /\ ret[t].map = update_and_compare_result(pre[t], M)
              /\ Content(last_map) = Content(M)

\* C13: every entry of a returned diff is an entry of the candidate; a key the
\* candidate lacks is never in the diff.
C13_DiffWithinCandidate ==
    \A t \in Threads :
        (pc[t] = "done" /\ op[t] \in DiffOps) =>
            /\ ret[t].map \subseteq Content(arg[t])
            /\ \A e \in ret[t].map : contains_key(arg[t], e[1])

\* a diff was returned for a candidate that lacks a key of the snapshot
C13_Witness ==
    /\ pc[Main] = "done" /\ op[Main] \in DiffOps
    /\ ~(KeysOf(pre[Main]) \subseteq KeysOf(arg[Main]))
    /\ ret[Main].map # {}

\* the snapshot S cut down to the candidate's keys, overridden by the diff d
Reconstruct(S, M, d) ==
    {e \in Content(S) : contains_key(M, e[1]) /\ \A f \in d : f[1] # e[1]} \cup d

\* C19: the snapshot cut down to M's keys and overridden by the diff of
\* compare(M) or update_and_compare(M) is exactly M, and the diff holds no
\* entry the snapshot already has.
C19_DiffReconstructsCandidate ==
    \A t \in Threads :
        (pc[t] = "done" /\ op[t] \in {"compare", "update_and_compare"}) =>
            /\ Reconstruct(pre[t], arg[t], ret[t].map) = Content(arg[t])
            /\ (~is_empty(pre[t]) \/ is_empty(arg[t])) =>
                  ret[t].map \cap Content(pre[t]) = {}

\* a compare whose diff is a proper, non-empty part of M: one entry kept from
\* the snapshot, one taken from the diff
C19_Witness ==
    /\ Done(Main, "compare")
    /\ ret[Main].map # {}
    /\ ret[Main].map # Content(arg[Main])
    /\ Content(arg[Main]) \cap Content(pre[Main]) # {}

\* C20: the diff loops unwrap last_map.get(key) only for keys the snapshot
\* holds, so the unwrap never panics and never poisons the guard; with one
\* caller and no failure in K's or V's code no operation ends in a panic, and
\* compare and update_and_compare hand back their map.
C20_UnwrapNeverFails ==
    /\ ~poisoned
    /\ \A t \in Threads :
        /\ pc[t] \notin {"failed", "aborted"}
        /\ (pc[t] = "held" /\ op[t] \in DiffOps) => ~unwrap_fails(last_map, arg[t])

\* a diff loop has run over a candidate with a key the snapshot holds (lookup
\* unwrapped) and a key it lacks (lookup skipped)
C20_Witness ==
    /\ pc[Main] = "done" /\ op[Main] \in DiffOps
    /\ ~poisoned
    /\ \E i, j \in DOMAIN arg[Main] :
          /\ contains_key(pre[Main], arg[Main][i][1])
          /\ ~contains_key(pre[Main], arg[Main][j][1])

\* t has computed a diff and no write of t's call has yet been recorded
DiffComputed(t) ==
    \/ pc[t] = "done" /\ op[t] \in {"compare", "compare_dashmap"}
    \/ pc[t] = "diffed" /\ op[t] = "update_and_compare"

\* C14: a key dropped by a write is absent from the snapshot for as long as
\* the written candidates lack it; a diff for a candidate that lacks it does
\* not mention it, and a diff for a candidate that holds it again reports it
\* with the candidate's value, be that the value it had when dropped or not.
C14_DroppedKeyReappears ==
    /\ \A e \in dropped : ~contains_key(last_map, e[1])
    /\ \A t \in Threads : DiffComputed(t) =>
          \A e \in dropped :
              IF contains_key(arg[t], e[1])
              THEN <<e[1], get(arg[t], e[1])>> \in ret[t].map
              ELSE \A f \in ret[t].map : f[1] # e[1]

\* update_and_compare on a non-empty snapshot reports an entry that an
\* earlier write had dropped and that is back with the value it had
C14_Witness ==
    /\ pc[Main] = "diffed" /\ op[Main] = "update_and_compare"
    /\ ~is_empty(pre[Main])
    /\ \E e \in dropped : e \in Content(arg[Main]) /\ e \in ret[Main].map

\* C15: the handles share one snapshot: a read through any handle returns
\* what the most recent write, through whichever handle, has stored.
C15_HandlesShareSnapshot ==
    [][\A u \in Threads :
         (pc[u] = "held" /\ pc'[u] = "done") =>
            /\ op[u] = "clone_last" => ret'[u].map = Content(written)
            /\ op[u] \in {"compare", "compare_dashmap"} =>
                  ret'[u].map = ExpectedDiff(written, arg[u])
            /\ op[u] = "is_same_dashmap" =>
                  (ret'[u].bool <=> Content(written) = Content(arg[u]))
            /\ op[u] = "is_same" =>
                  (ret'[u].bool => Content(written) = Content(arg[u]))]_vars

\* clone_last through one thread's handle returns the non-empty map another
\* thread's handle wrote
C15_Witness ==
    \E u \in Threads :
        /\ Done(u, "clone_last")
        /\ writer \notin {u, NoThread}
        /\ last_map = pre[u]
        /\ ret[u].map = Content(written)
        /\ ret[u].map # {}

Holding == {"held", "held2", "diffed"}

\* C16: at most one caller holds the guard, and a step that reads the
\* snapshot into a caller's view or changes the snapshot is a step of the
\* caller that holds the guard.
C16_MutualExclusion ==
    [][/\ \A t \in Threads :
            pc'[t] \in Holding =>
                (holder' = t /\ \A u \in Threads \ {t} : pc'[u] \notin Holding)
       /\ last_map' # last_map =>
            \E t \in Threads : holder = t /\ pc[t] \in Holding /\ pc'[t] # pc[t]
       /\ \A t \in Threads :
            (pc'[t] \in {"done", "diffed", "lock2"} /\ pc'[t] # pc[t]) =>
                (holder = t /\ pc[t] \in Holding)]_vars

\* one caller is inside the guard while the other waits to acquire it
C16_Witness ==
    \E t, u \in Threads :
        /\ pc[t] \in Holding /\ holder = t
        /\ pc[u] \in {"lock", "lock2"}
        /\ op[u] \in {"is_same", "clone_last", "is_same_update"}

\* C17: no caller holds the guard outside its critical sections (before its
\* call, while waiting to acquire, between the two acquisitions of
\* is_same_update, after its return), and under a fair lock with no failing
\* caller every invoked operation returns.
C17_GuardReleasedAndReturns ==
    /\ [](\A t \in Threads : pc[t] \notin Holding => holder # t)
    /\ \A t \in Threads : (pc[t] = "lock") ~> (pc[t] = "done")

\* is_same_update has released the guard after its check, and the other
\* caller holds the guard before the update re-acquires it
C17_Witness ==
    \E t, u \in Threads :
        /\ pc[t] = "lock2" /\ op[t] = "is_same_update"
        /\ holder = u /\ pc[u] \in Holding

\* C18: update_and_compare_dashmap returns a diff that fits the snapshot it
\* stored: every stored entry that is new or changed against the old
\* snapshot is in the diff, and every diff entry is a stored entry.
C18_DashmapDiffFitsStoredSnapshot ==
    \A t \in Threads :
        Done(t, "update_and_compare_dashmap") =>
            /\ ExpectedDiff(pre[t], last_map) \subseteq ret[t].map
            /\ ret[t].map \subseteq Content(last_map)

====
